---- MODULE Spec2Model ----
(***************************************************************************)
(* A model of font-kit's platform-independent core:                        *)
(*   - the default methods of the Source trait (src/src/source.rs):        *)
(*     select_by_postscript_name, select_family_by_spec,                   *)
(*     select_best_match, select_match_fields_for_family;                  *)
(*   - the OpenType collection unpacker of the Core Text loader            *)
(*     (src/src/loaders/core_text.rs): font_is_collection,                 *)
(*     read_number_of_fonts_from_otc_header, unpack_otc_font.              *)
(* Byte buffers are 0-based in the source and sequences are 1-based here:  *)
(* byte i of a buffer b is b[i + 1] (operator At).                         *)
(***************************************************************************)
EXTENDS Integers, Sequences, FiniteSets, TLC

VARIABLES
    installed,        \* the source: family name -> [ok, fonts]
    call,             \* the last Source call: [op, families, properties, name, all]
    result,           \* its outcome: [kind, handle, err]
    queries,          \* names passed to select_family_by_name by the last call
    data,             \* the byte buffer handed to unpack_otc_font
    pre,              \* that buffer as it was before the last unpack call
    font_index,       \* the face index of the last unpack call
    outcome,          \* outcome of the last unpack call: [kind, err]
    debug_assertions, \* whether the build evaluates debug_assert!
    loader,           \* the last Font loader call: [op, input, index, res, orig]
    shared,           \* a font buffer (Arc<Vec<u8>>) shared by concurrent callers
    threads,          \* the concurrent from_bytes calls on it: thread -> [pc, ...]
    interp            \* the last native-to-CSS conversion: [op, x, y]

vars == <<installed, call, result, queries, data, pre, font_index, outcome, debug_assertions,
          loader, shared, threads, interp>>

sourceVars == <<installed, call, result, queries>>
unpackVars == <<data, pre, font_index, outcome, debug_assertions>>
loaderVars == <<loader, shared, threads, interp>>

----------------------------------------------------------------------------
(* Bounds of the model. *)

MaxFamilies == 2     \* longest spec.families list
MaxFonts == 2        \* most fonts in one installed family

----------------------------------------------------------------------------
(* Small helpers. *)

Range(s) == {s[i] : i \in 1..Len(s)}

Min(S) == CHOOSE x \in S : \A y \in S : x <= y

SeqsUpTo(S, n) == UNION {[1..m -> S] : m \in 0..n}

InjSeqsUpTo(S, n) == {s \in SeqsUpTo(S, n) : \A i, j \in 1..Len(s) : i # j => s[i] # s[j]}

----------------------------------------------------------------------------
(* Results: Rust's Result<T, E>, plus the abort of a panic. *)

None == [kind |-> "None", handle |-> 0, err |-> ""]
Ok(h) == [kind |-> "Ok", handle |-> h, err |-> ""]
Err(e) == [kind |-> "Err", handle |-> 0, err |-> e]
Abort == [kind |-> "Abort", handle |-> 0, err |-> ""]

\* The selection errors a Source method can return.
SelectionError == {"NotFound"}

----------------------------------------------------------------------------
(* descriptor::FamilySpec and source.rs's default family names. *)

DEFAULT_FONT_FAMILY_SERIF == "Times New Roman"
DEFAULT_FONT_FAMILY_SANS_SERIF == "Arial"
DEFAULT_FONT_FAMILY_MONOSPACE == "Courier New"
DEFAULT_FONT_FAMILY_CURSIVE == "Comic Sans MS"
DEFAULT_FONT_FAMILY_FANTASY == "Papyrus"

Name(s) == [kind |-> "Name", name |-> s]
Generic(k) == [kind |-> k, name |-> ""]

GenericKinds == {"Serif", "SansSerif", "Monospace", "Cursive", "Fantasy"}

\* Literal family names a caller asks for.
LiteralNames == {"Nonexistent", "Example"}

FamilySpec == {Name(s) : s \in LiteralNames} \cup {Generic(k) : k \in GenericKinds}

\* Family names the source may have installed.
InstallableNames == {"Example", "Arial"}

----------------------------------------------------------------------------
(* Font handles.  A handle is an index into FontTable, which records what  *)
(* loading the handle gives: whether Font::from_handle succeeds, and the   *)
(* loaded face's PostScript name, family name and CSS properties           *)
(* (weight on the CSS scale, stretch in percent of normal).                *)

FontTable == <<
    [loadable |-> TRUE,  postscript_name |-> "PS-A", family_name |-> "Example",
     style |-> "Normal", weight |-> 400, stretch |-> 100],
    [loadable |-> TRUE,  postscript_name |-> "PS-B", family_name |-> "Example",
     style |-> "Italic", weight |-> 400, stretch |-> 100],
    [loadable |-> FALSE, postscript_name |-> "PS-A", family_name |-> "Example",
     style |-> "Normal", weight |-> 700, stretch |-> 100],
    [loadable |-> TRUE,  postscript_name |-> "PS-A", family_name |-> "Arial",
     style |-> "Normal", weight |-> 700, stretch |-> 100],
    [loadable |-> TRUE,  postscript_name |-> "PS-B", family_name |-> "Arial",
     style |-> "Oblique", weight |-> 400, stretch |-> 100],
    [loadable |-> FALSE, postscript_name |-> "PS-B", family_name |-> "Arial",
     style |-> "Italic", weight |-> 400, stretch |-> 100],
    [loadable |-> TRUE,  postscript_name |-> "PS-N4", family_name |-> "Styles",
     style |-> "Normal", weight |-> 400, stretch |-> 100],
    [loadable |-> TRUE,  postscript_name |-> "PS-N7", family_name |-> "Styles",
     style |-> "Normal", weight |-> 700, stretch |-> 100],
    [loadable |-> TRUE,  postscript_name |-> "PS-I4", family_name |-> "Styles",
     style |-> "Italic", weight |-> 400, stretch |-> 100],
    [loadable |-> TRUE,  postscript_name |-> "PS-I7", family_name |-> "Styles",
     style |-> "Italic", weight |-> 700, stretch |-> 100],
    [loadable |-> TRUE,  postscript_name |-> "PS-O4", family_name |-> "Styles",
     style |-> "Oblique", weight |-> 400, stretch |-> 100],
    [loadable |-> TRUE,  postscript_name |-> "PS-O7", family_name |-> "Styles",
     style |-> "Oblique", weight |-> 700, stretch |-> 100] >>

Handles == 1..Len(FontTable)

\* The handles of the fonts of one family.
HandlesOf(family_name) == {h \in Handles : FontTable[h].family_name = family_name}

PostScriptNames == {"PS-A", "PS-B", "PS-C"}

\* Font::from_handle(handle): Ok(font) or Err.
from_handle(h) == IF FontTable[h].loadable THEN Ok(h) ELSE Err("Parse")

postscript_name(h) == FontTable[h].postscript_name

\* MatchFields with the style left at its default.
MatchFields_default_style(h) ==
    [family_name |-> FontTable[h].family_name,
     style |-> "Normal",
     weight |-> FontTable[h].weight,
     stretch |-> FontTable[h].stretch]

MatchFields(h) ==
    [family_name |-> FontTable[h].family_name,
     style |-> FontTable[h].style,
     weight |-> FontTable[h].weight,
     stretch |-> FontTable[h].stretch]

Properties(s, w, st) == [style |-> s, weight |-> w, stretch |-> st]

\* The style properties callers ask for.
RequestedProperties ==
    {Properties("Normal", 400, 100), Properties("Italic", 700, 100)}

----------------------------------------------------------------------------
(* matching::find_best_match: the CSS Fonts Level 3 style matching over    *)
(* the candidates of one family.  Each axis keeps the candidates of best   *)
(* rank on it: style first, then stretch, then weight; the first survivor  *)
(* in family order is returned.  An empty candidate list is an error.      *)

StyleRank(req, s) ==
    CASE req = "Normal"  -> (CASE s = "Normal" -> 0 [] s = "Oblique" -> 1 [] OTHER -> 2)
      [] req = "Italic"  -> (CASE s = "Italic" -> 0 [] s = "Oblique" -> 1 [] OTHER -> 2)
      [] OTHER           -> (CASE s = "Oblique" -> 0 [] s = "Italic" -> 1 [] OTHER -> 2)

StretchRank(req, s) ==
    IF req <= 100
    THEN (IF s <= req THEN req - s ELSE 1000 + (s - req))
    ELSE (IF s >= req THEN s - req ELSE 1000 + (req - s))

WeightRank(req, w) ==
    CASE req >= 400 /\ req <= 500 ->
            (IF w >= req /\ w <= 500 THEN w - req
             ELSE IF w < req THEN 1000 + (req - w)
             ELSE 2000 + (w - 500))
      [] req < 400 -> (IF w <= req THEN req - w ELSE 1000 + (w - req))
      [] OTHER     -> (IF w >= req THEN w - req ELSE 1000 + (req - w))

\* Indices are 1-based here (0-based in the source).
find_best_match(candidates, properties) ==
    IF Len(candidates) = 0 THEN Err("NotFound")
    ELSE LET byStyle(i) == StyleRank(properties.style, candidates[i].style)
             byStretch(i) == StretchRank(properties.stretch, candidates[i].stretch)
             byWeight(i) == WeightRank(properties.weight, candidates[i].weight)
             S0 == 1..Len(candidates)
             S1 == {i \in S0 : \A j \in S0 : byStyle(i) <= byStyle(j)}
             S2 == {i \in S1 : \A j \in S1 : byStretch(i) <= byStretch(j)}
             S3 == {i \in S2 : \A j \in S2 : byWeight(i) <= byWeight(j)}
         IN  Ok(Min(S3))

----------------------------------------------------------------------------
(* The Source trait.  all_families and select_family_by_name are the two   *)
(* primitives a backend provides; the rest are the trait's default         *)
(* methods.  A family lookup is [kind, fonts, queried]: queried is the     *)
(* name the backend was asked for.                                         *)

select_family_by_name(src, family_name) ==
    IF family_name \in DOMAIN src /\ src[family_name].ok
    THEN [kind |-> "Ok", fonts |-> src[family_name].fonts, queried |-> family_name]
    ELSE [kind |-> "Err", fonts |-> <<>>, queried |-> family_name]

\* select_family_by_spec with the defaults of Serif and SansSerif exchanged.
select_family_by_spec_swapped(src, family) ==
    CASE family.kind = "Name"      -> select_family_by_name(src, family.name)
      [] family.kind = "Serif"     -> select_family_by_name(src, DEFAULT_FONT_FAMILY_SANS_SERIF)
      [] family.kind = "SansSerif" -> select_family_by_name(src, DEFAULT_FONT_FAMILY_SERIF)
      [] family.kind = "Monospace" -> select_family_by_name(src, DEFAULT_FONT_FAMILY_MONOSPACE)
      [] family.kind = "Cursive"   -> select_family_by_name(src, DEFAULT_FONT_FAMILY_CURSIVE)
      [] family.kind = "Fantasy"   -> select_family_by_name(src, DEFAULT_FONT_FAMILY_FANTASY)

select_family_by_spec(src, family) ==
    CASE family.kind = "Name"      -> select_family_by_name(src, family.name)
      [] family.kind = "Serif"     -> select_family_by_name(src, DEFAULT_FONT_FAMILY_SERIF)
      [] family.kind = "SansSerif" -> select_family_by_name(src, DEFAULT_FONT_FAMILY_SANS_SERIF)
      [] family.kind = "Monospace" -> select_family_by_name(src, DEFAULT_FONT_FAMILY_MONOSPACE)
      [] family.kind = "Cursive"   -> select_family_by_name(src, DEFAULT_FONT_FAMILY_CURSIVE)
      [] family.kind = "Fantasy"   -> select_family_by_name(src, DEFAULT_FONT_FAMILY_FANTASY)

\* The loop of select_match_fields_for_family from font i on: unwrap() of a
\* failed Font::from_handle panics.
RECURSIVE MatchFieldsFrom(_, _, _)
MatchFieldsFrom(fonts, i, fields) ==
    IF i > Len(fonts) THEN [kind |-> "Ok", fields |-> fields, err |-> ""]
    ELSE IF from_handle(fonts[i]).kind # "Ok"
         THEN [kind |-> "Abort", fields |-> <<>>, err |-> ""]
         ELSE MatchFieldsFrom(fonts, i + 1, Append(fields, MatchFields(fonts[i])))

\* The match fields pushed in the reverse of the family's order.
select_match_fields_for_family_reversed(fonts) ==
    MatchFieldsFrom([i \in 1..Len(fonts) |-> fonts[Len(fonts) + 1 - i]], 1, <<>>)

select_match_fields_for_family(fonts) == MatchFieldsFrom(fonts, 1, <<>>)

\* The loop of select_best_match from family i on; log is the names queried
\* so far.  Yields [res, queries].
RECURSIVE BestMatchFrom(_, _, _, _)
BestMatchFrom(src, spec, i, log) ==
    IF i > Len(spec.families) THEN [res |-> Err("NotFound"), queries |-> log]
    ELSE LET family_handle == select_family_by_spec(src, spec.families[i])
             log2 == Append(log, family_handle.queried)
         IN  IF family_handle.kind = "Ok"
             THEN LET candidates == select_match_fields_for_family(family_handle.fonts)
                  IN  CASE candidates.kind = "Abort" -> [res |-> Abort, queries |-> log2]
                        [] candidates.kind = "Err" ->
                              [res |-> Err(candidates.err), queries |-> log2]
                        [] OTHER ->
                              LET index == find_best_match(candidates.fields, spec.properties)
                              IN  IF index.kind = "Ok"
                                  THEN [res |-> Ok(family_handle.fonts[index.handle]),
                                        queries |-> log2]
                                  ELSE BestMatchFrom(src, spec, i + 1, log2)
             ELSE BestMatchFrom(src, spec, i + 1, log2)

\* select_best_match walking spec.families from its last entry to its first.
select_best_match_backwards(src, spec) ==
    LET n == Len(spec.families)
        reversed == [i \in 1..n |-> spec.families[n + 1 - i]]
    IN  BestMatchFrom(src, [spec EXCEPT !.families = reversed], 1, <<>>)

select_best_match(src, spec) == BestMatchFrom(src, spec, 1, <<>>)

\* Family::<Font>::from_handle: loads every font of the family, and fails
\* when one of them fails to load.
Family_from_handle(fonts) ==
    IF \A i \in 1..Len(fonts) : from_handle(fonts[i]).kind = "Ok"
    THEN [kind |-> "Ok", fonts |-> fonts]
    ELSE [kind |-> "Err", fonts |-> <<>>]

\* The inner loop returning the family's first handle, not the handle
\* zipped with the matching font.
RECURSIVE ScanFonts_first_handle(_, _, _, _)
ScanFonts_first_handle(handles, fonts, name, i) ==
    IF i > Len(handles) \/ i > Len(fonts) THEN None
    ELSE IF postscript_name(fonts[i]) = name THEN Ok(handles[1])
         ELSE ScanFonts_first_handle(handles, fonts, name, i + 1)

\* The inner loop of select_by_postscript_name: the zip of the family's
\* handles with its loaded fonts, from position i on.
RECURSIVE ScanFonts(_, _, _, _)
ScanFonts(handles, fonts, name, i) ==
    IF i > Len(handles) \/ i > Len(fonts) THEN None
    ELSE IF postscript_name(fonts[i]) = name THEN Ok(handles[i])
         ELSE ScanFonts(handles, fonts, name, i + 1)

\* The outer loop, over the names all_families returned, from position i on.
RECURSIVE ScanFamilies(_, _, _, _, _)
ScanFamilies(src, names, name, i, log) ==
    IF i > Len(names) THEN [res |-> Err("NotFound"), queries |-> log]
    ELSE LET family_handle == select_family_by_name(src, names[i])
             log2 == Append(log, family_handle.queried)
             family == Family_from_handle(family_handle.fonts)
             found == ScanFonts(family_handle.fonts, family.fonts, name, 1)
         IN  IF family_handle.kind = "Ok" /\ family.kind = "Ok" /\ found.kind = "Ok"
             THEN [res |-> found, queries |-> log2]
             ELSE ScanFamilies(src, names, name, i + 1, log2)

\* all is what all_families returned: [kind, names, err].
select_by_postscript_name(src, all, name) ==
    IF all.kind = "Err" THEN [res |-> Err(all.err), queries |-> <<>>]
    ELSE ScanFamilies(src, all.names, name, 1, <<>>)

----------------------------------------------------------------------------
(* The state machine of a source and its callers. *)

NotInstalled == [ok |-> FALSE, fonts |-> <<>>]

\* What the source holds under one name: nothing, or a family of that
\* name's fonts, in any order.
FamilyStates(family_name) ==
    {NotInstalled}
    \cup {[ok |-> TRUE, fonts |-> f] : f \in InjSeqsUpTo(HandlesOf(family_name), MaxFonts)}

\* What all_families can answer: an error, or the installed names in any order.
AllFamiliesOutcomes ==
    {[kind |-> "Err", names |-> <<>>, err |-> e] : e \in SelectionError}
    \cup {[kind |-> "Ok", names |-> n, err |-> ""] :
            n \in InjSeqsUpTo(InstallableNames, Cardinality(InstallableNames))}

NoAll == [kind |-> "None", names |-> <<>>, err |-> ""]
NoProperties == Properties("", 0, 0)
NoCall == [op |-> "", families |-> <<>>, properties |-> NoProperties, name |-> "", all |-> NoAll]

EmptyBuffer == <<>>
NoOutcome == [kind |-> "None", err |-> ""]

\* What a loader call yields: kind is "Font", "Single", "Collection", "Err"
\* or "Abort"; count is the face count of a Collection; source, font_data
\* and meta are a Font's FontData variant, its bytes, and what its native
\* font shows of the face it was made from.
NoRes == [kind |-> "None", err |-> "", count |-> 0, source |-> "",
          font_data |-> <<>>, meta |-> <<>>]
NoLoader == [op |-> "", input |-> <<>>, index |-> 0, res |-> NoRes, orig |-> NoRes]
NoThreads == <<>>
NoInterp == [op |-> "", x |-> 0, y |-> 0]

\* The state of the parts of the program a specification leaves idle.
SourceIdle ==
    /\ installed = [name \in InstallableNames |-> NotInstalled]
    /\ call = NoCall
    /\ result = None
    /\ queries = <<>>

UnpackIdle ==
    /\ data = EmptyBuffer
    /\ pre = EmptyBuffer
    /\ font_index = 0
    /\ outcome = NoOutcome

LoaderIdle ==
    /\ loader = NoLoader
    /\ shared = EmptyBuffer
    /\ threads = NoThreads

InterpIdle == interp = NoInterp

SourceInit ==
    /\ installed \in [InstallableNames -> UNION {FamilyStates(n) : n \in InstallableNames}]
    /\ \A n \in InstallableNames : installed[n] \in FamilyStates(n)
    /\ call = NoCall
    /\ result = None
    /\ queries = <<>>
    /\ data = EmptyBuffer
    /\ pre = EmptyBuffer
    /\ font_index = 0
    /\ outcome = NoOutcome
    /\ debug_assertions = FALSE
    /\ LoaderIdle
    /\ InterpIdle

\* Calls are synchronous: a caller makes one when no call is outstanding.
SelectBestMatch ==
    \E families \in SeqsUpTo(FamilySpec, MaxFamilies), properties \in RequestedProperties :
        LET spec == [families |-> families, properties |-> properties]
            r == select_best_match(installed, spec)
        IN  /\ call.op = ""
            /\ call' = [op |-> "select_best_match", families |-> families,
                        properties |-> properties, name |-> "", all |-> NoAll]
            /\ result' = r.res
            /\ queries' = r.queries
            /\ UNCHANGED <<installed, unpackVars, loaderVars>>

SelectByPostscriptName ==
    \E all \in AllFamiliesOutcomes, name \in PostScriptNames :
        LET r == select_by_postscript_name(installed, all, name)
        IN  /\ call.op = ""
            /\ call' = [op |-> "select_by_postscript_name", families |-> <<>>,
                        properties |-> NoProperties, name |-> name, all |-> all]
            /\ result' = r.res
            /\ queries' = r.queries
            /\ UNCHANGED <<installed, unpackVars, loaderVars>>

\* The caller takes the result; an aborted call never returns.
Return ==
    /\ call.op # ""
    /\ result.kind # "Abort"
    /\ call' = NoCall
    /\ result' = None
    /\ queries' = <<>>
    /\ UNCHANGED <<installed, unpackVars, loaderVars>>

SourceNext == SelectBestMatch \/ SelectByPostscriptName \/ Return

SourceSpec == SourceInit /\ [][SourceNext]_vars

----------------------------------------------------------------------------
(* The collection unpacker of loaders/core_text.rs. *)

MaxFaces == 2        \* largest face count a generated collection header holds
MaxTables == 1
MaxStyleFonts == 3
MaxThreads == 2       \* largest table count a generated table directory holds

At(b, i) == b[i + 1]

TTC_TAG == <<116, 116, 99, 102>>     \* b"ttcf"

\* utils::SFNT_VERSIONS: the known table-directory version tags
\* (0x00010000, "OTTO", "true", "typ1").
SFNT_VERSIONS ==
    {<<0, 1, 0, 0>>, <<79, 84, 84, 79>>, <<116, 114, 117, 101>>, <<116, 121, 112, 49>>}

\* The big-endian numbers at byte position pos of b.
BE32At(b, pos) ==
    At(b, pos) * 16777216 + At(b, pos + 1) * 65536 + At(b, pos + 2) * 256 + At(b, pos + 3)

BE16At(b, pos) == At(b, pos) * 256 + At(b, pos + 1)

\* (&b[pos..]).read_u32::<BigEndian>(): taking the slice panics when pos is
\* past the end of b; reading from a slice of fewer than 4 bytes is an I/O error.
read_u32(b, pos) ==
    IF pos > Len(b) THEN [kind |-> "Abort", value |-> 0, err |-> ""]
    ELSE IF Len(b) - pos < 4 THEN [kind |-> "Err", value |-> 0, err |-> "Io"]
    ELSE [kind |-> "Ok", value |-> BE32At(b, pos), err |-> ""]

read_u16(b, pos) ==
    IF pos > Len(b) THEN [kind |-> "Abort", value |-> 0, err |-> ""]
    ELSE IF Len(b) - pos < 2 THEN [kind |-> "Err", value |-> 0, err |-> "Io"]
    ELSE [kind |-> "Ok", value |-> BE16At(b, pos), err |-> ""]

font_is_collection(header) == Len(header) >= 4 /\ SubSeq(header, 1, 4) = TTC_TAG

\* The count read from the version field at 4.
read_number_of_fonts_from_version_field(header) ==
    IF ~font_is_collection(header)
    THEN [kind |-> "Err", value |-> 0, err |-> "UnknownFormat"]
    ELSE read_u32(header, 4)

read_number_of_fonts_from_otc_header(header) ==
    IF ~font_is_collection(header)
    THEN [kind |-> "Err", value |-> 0, err |-> "UnknownFormat"]
    ELSE read_u32(header, 8)

\* The guard with > for >=.
NoSuchFont_off_by_one(index, count) == index > count

\* The guard of unpack_otc_font's first statement.
NoSuchFont(index, count) == index >= count

\* debug_assert!(SFNT_VERSIONS.iter().any(|v| data[pos..pos + 4] == *v)): TRUE
\* when the assertion passes.  It is evaluated in builds with debug
\* assertions only; there, taking the slice panics when it runs past the
\* end of the buffer, and so does a failed assertion.
VersionAssertPasses(b, pos, debug) ==
    ~debug \/ (pos + 4 <= Len(b) /\ SubSeq(b, pos + 1, pos + 4) \in SFNT_VERSIONS)

\* The copy made from the last index down to the first.
RECURSIVE CopyBackwardFrom(_, _, _)
CopyBackwardFrom(b, pos, offset) ==
    IF offset < 0 THEN [kind |-> "Ok", err |-> "", data |-> b]
    ELSE IF pos + offset >= Len(b) \/ offset >= Len(b)
         THEN [kind |-> "Abort", err |-> "", data |-> b]
         ELSE CopyBackwardFrom([b EXCEPT ![offset + 1] = At(b, pos + offset)], pos, offset - 1)

CopyBackward(b, pos, offset, size) == CopyBackwardFrom(b, pos, size - 1)

\* The copy loop from index offset on: data[offset] = data[pos + offset],
\* ascending.  An index past the end of the buffer panics, with the bytes
\* copied so far already written.
RECURSIVE CopyForward(_, _, _, _)
CopyForward(b, pos, offset, size) ==
    IF offset >= size THEN [kind |-> "Ok", err |-> "", data |-> b]
    ELSE IF pos + offset >= Len(b) \/ offset >= Len(b)
         THEN [kind |-> "Abort", err |-> "", data |-> b]
         ELSE CopyForward([b EXCEPT ![offset + 1] = At(b, pos + offset)],
                          pos, offset + 1, size)

\* Yields [kind, err, data]: the result and the buffer as the call leaves it.
unpack_otc_font(b, index, debug) ==
    LET count == read_number_of_fonts_from_otc_header(b)
        offset_table_pos_pos == 12 + 4 * index
        offset_table_pos == read_u32(b, offset_table_pos_pos)
        num_tables == read_u16(b, offset_table_pos.value + 4)
        offset_table_and_table_record_size == 12 + num_tables.value * 16
    IN  CASE count.kind # "Ok" -> [kind |-> count.kind, err |-> count.err, data |-> b]
          [] count.kind = "Ok" /\ NoSuchFont(index, count.value) ->
                [kind |-> "Err", err |-> "NoSuchFontInCollection", data |-> b]
          [] OTHER ->
                IF offset_table_pos.kind # "Ok"
                THEN [kind |-> offset_table_pos.kind, err |-> offset_table_pos.err, data |-> b]
                ELSE IF ~VersionAssertPasses(b, offset_table_pos.value, debug)
                THEN [kind |-> "Abort", err |-> "", data |-> b]
                ELSE IF num_tables.kind # "Ok"
                THEN [kind |-> num_tables.kind, err |-> num_tables.err, data |-> b]
                ELSE CopyForward(b, offset_table_pos.value, 0,
                                 offset_table_and_table_record_size)

----------------------------------------------------------------------------
(* The buffers callers hand to the unpacker: collections as font tools     *)
(* write them, and malformed ones.  Every byte that the layout does not    *)
(* fix is a filler byte that tells its position.                           *)

BE32(v) == <<(v \div 16777216) % 256, (v \div 65536) % 256, (v \div 256) % 256, v % 256>>

BE16(v) == <<(v \div 256) % 256, v % 256>>

\* Filler bytes stay below 128, so that every big-endian 32-bit number read
\* from a buffer is below 2^31.
Filler(len) == [i \in 1..len |-> 8 + ((i - 1) % 120)]

\* b with bytes written at position pos (clipped at the end of b).
Overlay(b, pos, bytes) ==
    [i \in 1..Len(b) |->
        IF i - 1 >= pos /\ i - 1 < pos + Len(bytes) THEN bytes[i - pos] ELSE b[i]]

\* One table record: tag, checksum, offset and length of the table's data.
TableRecord(j, tableOffset) ==
    <<84, 66, 76, 48 + j>> \o <<j, j, j, j>> \o BE32(tableOffset + 4 * (j - 1)) \o BE32(4)

RECURSIVE TableRecords(_, _)
TableRecords(n, tableOffset) ==
    IF n = 0 THEN <<>> ELSE TableRecords(n - 1, tableOffset) \o TableRecord(n, tableOffset)

\* A table directory: version tag, table count, search fields, records.
TableDirectory(version, n, tableOffset) ==
    version \o BE16(n) \o <<0, 16, 0, 0, 0, 0>> \o TableRecords(n, tableOffset)

DirectorySize(n) == 12 + 16 * n

\* The first position at which a largest directory clears the region that
\* unpacking overwrites, and the length of a full buffer.
FarOffset == 12 + 4 * MaxFaces + DirectorySize(MaxTables)
BufLen == FarOffset + DirectorySize(MaxTables) + 8

RECURSIVE WithDirectories(_, _, _, _)
WithDirectories(b, offsets, i, dir) ==
    IF i > Len(offsets) THEN b
    ELSE WithDirectories(Overlay(b, offsets[i], dir), offsets, i + 1, dir)

RECURSIVE OffsetArray(_, _)
OffsetArray(offsets, i) ==
    IF i > Len(offsets) THEN <<>> ELSE BE32(offsets[i]) \o OffsetArray(offsets, i + 1)

\* magic: the 4-byte tag at 0; offsets: one directory offset per face;
\* every directory has the same version tag, table count and table offset.
MakeBuffer(magic, offsets, version, n, tableOffset, len) ==
    LET dirs == WithDirectories(Filler(BufLen), offsets, 1,
                                TableDirectory(version, n, tableOffset))
        header == magic \o <<0, 1, 0, 0>> \o BE32(Len(offsets)) \o OffsetArray(offsets, 1)
    IN  SubSeq(Overlay(dirs, 0, header), 1, len)

Magics == {TTC_TAG, <<116, 116, 99, 103>>}

Versions == {<<0, 1, 0, 0>>, <<79, 84, 84, 79>>, <<88, 88, 88, 88>>}

\* Directory offsets: inside the header, right after the offset array of a
\* collection of faces faces, clear of the overwritten region, running past
\* the end of the buffer, and past the end.
OffsetChoices(faces) == {0, 4, 12 + 4 * faces, FarOffset, BufLen - 8, BufLen + 4}

\* Table data right after the offset array, or at the end of the buffer.
TableOffsetChoices(faces) == {12 + 4 * faces, BufLen - 8}

\* Whole buffers, and buffers cut short inside the header or offset array.
LengthChoices == {6, 10, 14, BufLen}

\* The buffers of a collection header that announces faces faces.
BuffersOf(faces) ==
    {MakeBuffer(magic, offsets, version, n, tableOffset, len) :
        magic \in Magics,
        offsets \in [1..faces -> OffsetChoices(faces)],
        version \in Versions,
        n \in 0..MaxTables,
        tableOffset \in TableOffsetChoices(faces),
        len \in LengthChoices}

Buffers == UNION {BuffersOf(faces) : faces \in 0..MaxFaces}

UnpackInit ==
    /\ installed = [name \in InstallableNames |-> NotInstalled]
    /\ call = NoCall
    /\ result = None
    /\ queries = <<>>
    /\ data \in Buffers
    /\ pre = data
    /\ font_index = 0
    /\ outcome = NoOutcome
    /\ debug_assertions \in BOOLEAN
    /\ LoaderIdle
    /\ InterpIdle

\* A call unpack_otc_font(&mut data, index); a panic ends the process.
Unpack ==
    \E index \in 0..MaxFaces :
        LET r == unpack_otc_font(data, index, debug_assertions)
        IN  /\ outcome.kind # "Abort"
            /\ pre' = data
            /\ data' = r.data
            /\ font_index' = index
            /\ outcome' = [kind |-> r.kind, err |-> r.err]
            /\ UNCHANGED <<debug_assertions, sourceVars, loaderVars>>

UnpackNext == Unpack

UnpackSpec == UnpackInit /\ [][UnpackNext]_vars

----------------------------------------------------------------------------
(* Properties of select_best_match. *)

BestMatchReturned == call.op = "select_best_match"

\* Family i of the last call's list resolves through the source.
Resolves(i) ==
    LET name == IF call.families[i].kind = "Name" THEN call.families[i].name
                ELSE CASE call.families[i].kind = "Serif" -> "Times New Roman"
                       [] call.families[i].kind = "SansSerif" -> "Arial"
                       [] call.families[i].kind = "Monospace" -> "Courier New"
                       [] call.families[i].kind = "Cursive" -> "Comic Sans MS"
                       [] call.families[i].kind = "Fantasy" -> "Papyrus"
    IN  name \in DOMAIN installed /\ installed[name].ok

\* The fonts of family i, when it resolves.
FontsOf(i) == select_family_by_spec(installed, call.families[i]).fonts

\* Family i resolves and has at least one font.
Yields(i) == Resolves(i) /\ Len(FontsOf(i)) > 0

\* C1: the handle select_best_match returns is a font of the first family,
\* in list order, that resolves and has at least one font: families that do
\* not resolve and empty families are skipped, and no later family is
\* preferred over an earlier one that yields.
C1_FirstYieldingFamily ==
    (BestMatchReturned /\ result.kind = "Ok") =>
        \E i \in 1..Len(call.families) :
            /\ Yields(i)
            /\ \A j \in 1..(i - 1) : ~Yields(j)
            /\ result.handle \in Range(FontsOf(i))

\* A handle of the second family is returned after skipping a first family
\* that resolved with no fonts.
C1_Witness ==
    /\ BestMatchReturned
    /\ result.kind = "Ok"
    /\ Len(call.families) = 2
    /\ Resolves(1) /\ Len(FontsOf(1)) = 0
    /\ result.handle \in Range(FontsOf(2))

\* C2: select_best_match returns NotFound exactly when no listed family
\* yields a candidate, and returns a handle whenever some listed family
\* resolves and is non-empty.
C2_NotFoundIffNoCandidate ==
    BestMatchReturned =>
        /\ (result = Err("NotFound")) <=> (\A i \in 1..Len(call.families) : ~Yields(i))
        /\ (\E i \in 1..Len(call.families) : Yields(i)) => result.kind = "Ok"

\* C3: select_best_match fails only after every listed family was tried: a
\* failure while handling one family makes it go on to the next family.
C3_FailsOnlyAfterAllFamilies ==
    (BestMatchReturned /\ result.kind # "Ok") => Len(queries) = Len(call.families)

\* C4: select_best_match ends with a handle or a typed SelectionError and
\* never aborts.
C4_NeverAborts ==
    BestMatchReturned =>
        \/ result.kind = "Ok" /\ result.handle \in Handles
        \/ result.kind = "Err" /\ result.err \in SelectionError

\* The one name a FamilySpec stands for.
QueriedName(family) ==
    CASE family.kind = "Name" -> family.name
      [] family.kind = "Serif" -> "Times New Roman"
      [] family.kind = "SansSerif" -> "Arial"
      [] family.kind = "Monospace" -> "Courier New"
      [] family.kind = "Cursive" -> "Comic Sans MS"
      [] family.kind = "Fantasy" -> "Papyrus"

\* C5: each FamilySpec tried is one name query on the source, Name(s) for s
\* and a generic class for its fixed default name, in list order; a call
\* that returns NotFound has queried every listed family, so families
\* [Name("Nonexistent"), SansSerif] with neither installed query
\* "Nonexistent" and then "Arial" before NotFound.
C5_OneQueryPerFamily ==
    BestMatchReturned =>
        /\ Len(queries) <= Len(call.families)
        /\ \A i \in 1..Len(queries) : queries[i] = QueriedName(call.families[i])
        /\ result = Err("NotFound") => Len(queries) = Len(call.families)
        /\ (/\ call.families = <<Name("Nonexistent"), Generic("SansSerif")>>
            /\ ~installed["Arial"].ok)
           => (queries = <<"Nonexistent", "Arial">> /\ result = Err("NotFound"))

\* The fall-through scenario itself.
C5_Witness ==
    /\ BestMatchReturned
    /\ call.families = <<Name("Nonexistent"), Generic("SansSerif")>>
    /\ ~installed["Arial"].ok
    /\ queries = <<"Nonexistent", "Arial">>
    /\ result = Err("NotFound")

----------------------------------------------------------------------------
(* Properties of select_by_postscript_name. *)

\* The handles of the families that resolve and load, in the order
\* all_families lists the families and, inside each, in handle order.
RECURSIVE ScannedFrom(_, _)
ScannedFrom(names, i) ==
    IF i > Len(names) THEN <<>>
    ELSE LET fam == IF names[i] \in DOMAIN installed THEN installed[names[i]] ELSE NotInstalled
             loads == fam.ok /\ \A k \in 1..Len(fam.fonts) : FontTable[fam.fonts[k]].loadable
         IN  (IF loads THEN fam.fonts ELSE <<>>) \o ScannedFrom(names, i + 1)

Scanned == ScannedFrom(call.all.names, 1)

Matching == {p \in 1..Len(Scanned) : FontTable[Scanned[p]].postscript_name = call.name}

\* C6: select_by_postscript_name returns the handle of the first scanned
\* font whose PostScript name is the requested one, scanning families in
\* all_families order and fonts in handle order and skipping families that
\* do not resolve or do not load; it returns NotFound exactly when no
\* scanned font has that name.
C6_FirstPostscriptMatch ==
    call.op = "select_by_postscript_name" =>
        /\ Matching # {} => result = Ok(Scanned[Min(Matching)])
        /\ Matching = {} => result = Err("NotFound")

\* The first listed family has a font of the requested name but does not
\* load; the handle returned is the second font of the second family.
C6_Witness ==
    /\ call.op = "select_by_postscript_name"
    /\ Len(call.all.names) = 2
    /\ installed[call.all.names[1]].ok
    /\ \E k \in 1..Len(installed[call.all.names[1]].fonts) :
          /\ ~FontTable[installed[call.all.names[1]].fonts[k]].loadable
    /\ \E k \in 1..Len(installed[call.all.names[1]].fonts) :
          /\ FontTable[installed[call.all.names[1]].fonts[k]].postscript_name = call.name
    /\ Len(installed[call.all.names[2]].fonts) = 2
    /\ result = Ok(installed[call.all.names[2]].fonts[2])
    /\ FontTable[installed[call.all.names[2]].fonts[1]].postscript_name # call.name

----------------------------------------------------------------------------
(* Properties of unpack_otc_font.  The quantities below are read from the  *)
(* buffer as it was when the call was made.                                *)

Called == outcome.kind # "None"

FaceCount(b) == BE32At(b, 8)
DirectoryOffset(b, k) == BE32At(b, 12 + 4 * k)
TableCount(b, k) == BE16At(b, DirectoryOffset(b, k) + 4)
RegionSize(b, k) == 12 + 16 * TableCount(b, k)

\* b is a collection that has a face k whose directory offset can be read.
HasFace(b, k) ==
    /\ font_is_collection(b)
    /\ Len(b) >= 12 + 4 * k + 4
    /\ k < FaceCount(b)

\* Face k's table directory lies inside b.
DirectoryInBounds(b, k) ==
    /\ HasFace(b, k)
    /\ DirectoryOffset(b, k) + 6 <= Len(b)
    /\ DirectoryOffset(b, k) + RegionSize(b, k) <= Len(b)

\* Face k's version tag is one of the known values.
KnownVersion(b, k) ==
    /\ DirectoryOffset(b, k) + 4 <= Len(b)
    /\ \E v \in SFNT_VERSIONS :
          \A i \in 0..3 : At(b, DirectoryOffset(b, k) + i) = v[i + 1]

\* C7: for a collection whose face k has its table directory inside the
\* buffer (with a known version tag where the build asserts it),
\* unpack(buf, k) succeeds and the first 12 + 16 * n_k bytes of the buffer
\* are the bytes that were at off_k onwards, whatever off_k >= 0 is,
\* overlapping regions included; the buffer then begins with face k's
\* table directory and its table count.
C7_PrefixIsDirectory ==
    (/\ Called
     /\ DirectoryInBounds(pre, font_index)
     /\ (debug_assertions => KnownVersion(pre, font_index)))
    => /\ outcome.kind = "Ok"
       /\ \A i \in 0..(RegionSize(pre, font_index) - 1) :
             At(data, i) = At(pre, DirectoryOffset(pre, font_index) + i)
       /\ BE16At(data, 4) = TableCount(pre, font_index)

\* A successful unpack whose source region starts inside its destination.
C7_Witness ==
    /\ Called
    /\ outcome.kind = "Ok"
    /\ DirectoryInBounds(pre, font_index)
    /\ KnownVersion(pre, font_index)
    /\ DirectoryOffset(pre, font_index) > 0
    /\ DirectoryOffset(pre, font_index) < RegionSize(pre, font_index)
    /\ TableCount(pre, font_index) >= 1
    /\ data # pre

\* C8: unpack(buf, k) with k at or past the face count of the collection
\* header returns NoSuchFontInCollection and leaves the buffer unchanged.
C8_OutOfRangeIndex ==
    (/\ Called
     /\ font_is_collection(pre)
     /\ Len(pre) >= 12
     /\ font_index >= FaceCount(pre))
    => /\ outcome = [kind |-> "Err", err |-> "NoSuchFontInCollection"]
       /\ data = pre

\* unpack(buf, N) on a whole collection of N >= 1 faces.
C8_Witness ==
    /\ Called
    /\ font_is_collection(pre)
    /\ Len(pre) = BufLen
    /\ FaceCount(pre) >= 1
    /\ font_index = FaceCount(pre)
    /\ outcome = [kind |-> "Err", err |-> "NoSuchFontInCollection"]
    /\ data = pre

\* C9: unpack fails with an error whenever the magic tag check fails or the
\* selected face's version tag is not a known value, and then it has not
\* modified the buffer.
C9_MalformedIsError ==
    (/\ Called
     /\ \/ ~font_is_collection(pre)
        \/ /\ HasFace(pre, font_index)
           /\ DirectoryOffset(pre, font_index) + 4 <= Len(pre)
           /\ ~KnownVersion(pre, font_index))
    => /\ outcome.kind = "Err"
       /\ data = pre

\* Record j (from 0) of the directory at position dir of b: the offset and
\* the length of the table data it points to.
RecordOffset(b, dir, j) == BE32At(b, dir + 12 + 16 * j + 8)
RecordLength(b, dir, j) == BE32At(b, dir + 12 + 16 * j + 12)

\* The table data of record j of face k lies inside b, after the header and
\* the offset array, and clear of every face's table directory.
TableDataClear(b, k, j) ==
    LET at == RecordOffset(b, DirectoryOffset(b, k), j)
        len == RecordLength(b, DirectoryOffset(b, k), j)
    IN  /\ len <= Len(b) /\ at <= Len(b) - len
        /\ at >= 12 + 4 * FaceCount(b)
        /\ \A f \in 0..(FaceCount(b) - 1) :
              \/ at + len <= DirectoryOffset(b, f)
              \/ at >= DirectoryOffset(b, f) + RegionSize(b, f)

\* b is laid out as the collection format allows: every face has a known
\* version tag and a table directory inside b after the offset array, and
\* the table data of face k's records is clear of header and directories.
WellLaidOut(b, k) ==
    /\ HasFace(b, k)
    /\ Len(b) >= 12 + 4 * FaceCount(b)
    /\ \A f \in 0..(FaceCount(b) - 1) :
          /\ DirectoryInBounds(b, f)
          /\ KnownVersion(b, f)
          /\ DirectoryOffset(b, f) >= 12 + 4 * FaceCount(b)
    /\ \A j \in 0..(TableCount(b, k) - 1) : TableDataClear(b, k, j)

\* C10: a successful unpack (of a collection laid out as the format allows)
\* changes no byte at or beyond 12 + 16 * n_k, the copied table records
\* carry the offsets of the source directory, and the table data each of
\* them points to is the same before and after.
C10_OnlyDirectoryMoves ==
    (Called /\ outcome.kind = "Ok" /\ WellLaidOut(pre, font_index)) =>
        LET off == DirectoryOffset(pre, font_index)
            n == TableCount(pre, font_index)
        IN  /\ \A i \in (12 + 16 * n)..(Len(pre) - 1) : At(data, i) = At(pre, i)
            /\ \A j \in 0..(n - 1) :
                  /\ RecordOffset(data, 0, j) = RecordOffset(pre, off, j)
                  /\ \A p \in 0..(Len(pre) - 1) :
                        (/\ p >= RecordOffset(pre, off, j)
                         /\ p - RecordOffset(pre, off, j) < RecordLength(pre, off, j))
                        => At(data, p) = At(pre, p)

----------------------------------------------------------------------------
(* The Core Text loader: Font::from_bytes, Font::from_core_text_font,      *)
(* Font::analyze_bytes, Font::copy_font_data and Face::from_font.          *)
(* Core Graphics and Core Text are outside the repository: a native font   *)
(* is modelled by the table directory it was made from, and what it shows  *)
(* (names, metrics, properties) by the directory's version tag and the     *)
(* tag and data of each of its tables.                                     *)

\* The native font service can make a font of the table directory at
\* position dir of b: the directory and the data of its tables lie inside
\* b and the version tag is a known one.
FaceParses(b, dir) ==
    /\ dir + 12 <= Len(b)
    /\ SubSeq(b, dir + 1, dir + 4) \in SFNT_VERSIONS
    /\ dir + 12 + 16 * BE16At(b, dir + 4) <= Len(b)
    /\ \A j \in 0..(BE16At(b, dir + 4) - 1) :
          /\ BE32At(b, dir + 12 + 16 * j + 12) <= Len(b)
          /\ BE32At(b, dir + 12 + 16 * j + 8) <= Len(b) - BE32At(b, dir + 12 + 16 * j + 12)

\* Tag and data of tables j.. of the directory at dir.
RECURSIVE TablesFrom(_, _, _)
TablesFrom(b, dir, j) ==
    IF j >= BE16At(b, dir + 4) THEN <<>>
    ELSE LET rec == dir + 12 + 16 * j
             at == BE32At(b, rec + 8)
             len == BE32At(b, rec + 12)
         IN  SubSeq(b, rec + 1, rec + 4) \o SubSeq(b, at + 1, at + len)
             \o TablesFrom(b, dir, j + 1)

\* What a native font made of the directory at dir shows.
Metadata(b, dir) == SubSeq(b, dir + 1, dir + 4) \o TablesFrom(b, dir, 0)

\* CGFont::from_data_provider(data): Core Graphics reads the buffer as one
\* font, from the table directory at its start.
CGFont_from_data_provider(b) ==
    IF FaceParses(b, 0) THEN [kind |-> "Ok", meta |-> Metadata(b, 0)]
    ELSE [kind |-> "Err", meta |-> <<>>]

LoadErr(e) == [NoRes EXCEPT !.kind = "Err", !.err = e]
LoadAbort == [NoRes EXCEPT !.kind = "Abort"]

\* The Arc<Vec<u8>> that from_bytes hands on: a clone of the caller's
\* buffer, unpacked in place, when the buffer is a collection.
UnpackedClone(font_data, index, debug) ==
    IF font_is_collection(font_data)
    THEN unpack_otc_font(font_data, index, debug)
    ELSE [kind |-> "Ok", err |-> "", data |-> font_data]

from_bytes(font_data, index, debug) ==
    LET new_font_data == UnpackedClone(font_data, index, debug)
        core_graphics_font == CGFont_from_data_provider(new_font_data.data)
    IN  CASE new_font_data.kind = "Abort" -> LoadAbort
          [] new_font_data.kind = "Err" -> LoadErr(new_font_data.err)
          [] OTHER ->
                IF core_graphics_font.kind # "Ok" THEN LoadErr("Parse")
                ELSE [kind |-> "Font", err |-> "", count |-> 0, source |-> "Memory",
                      font_data |-> new_font_data.data, meta |-> core_graphics_font.meta]

\* native is a Core Text font: [file, dir, mapped], the file its URL names,
\* the table directory in that file it was made from, and whether the file
\* can be opened and mapped.
from_core_text_font(native) ==
    [kind |-> "Font", err |-> "", count |-> 0,
     source |-> IF native.mapped THEN "File" ELSE "Unavailable",
     font_data |-> IF native.mapped THEN native.file ELSE <<>>,
     meta |-> Metadata(native.file, native.dir)]

analyze_bytes(font_data) ==
    LET font_count == read_number_of_fonts_from_otc_header(font_data)
    IN  CASE font_count.kind = "Ok" -> [NoRes EXCEPT !.kind = "Collection",
                                                     !.count = font_count.value]
          [] font_count.kind = "Abort" -> LoadAbort
          [] OTHER -> IF CGFont_from_data_provider(font_data).kind = "Ok"
                      THEN [NoRes EXCEPT !.kind = "Single"]
                      ELSE LoadErr("Parse")

\* Option<Arc<Vec<u8>>>: [some, bytes].
copy_font_data(font) ==
    IF font.source = "Unavailable" THEN [some |-> FALSE, bytes |-> <<>>]
    ELSE [some |-> TRUE, bytes |-> font.font_data]

\* The face index from_font loads.
FromFontIndex == 0

from_font(other_font, debug) ==
    LET font_data == copy_font_data(other_font)
    IN  IF font_data.some THEN from_bytes(font_data.bytes, FromFontIndex, debug)
        ELSE LoadErr("FontDataUnavailable")

----------------------------------------------------------------------------
(* Font files as font tools write them, and the buffers loaders are given. *)

\* Where face f's table directory and table data start in a collection of
\* faces faces with n tables each.
FileDirectoryStart(faces, n, f) == 12 + 4 * faces + f * DirectorySize(n)
FileDataStart(faces, n, f) == 12 + 4 * faces + faces * DirectorySize(n) + f * 4 * n

RECURSIVE FileWithFaces(_, _, _, _)
FileWithFaces(b, faces, n, f) ==
    IF f >= faces THEN b
    ELSE FileWithFaces(
            Overlay(b, FileDirectoryStart(faces, n, f),
                    TableDirectory(<<0, 1, 0, 0>>, n, FileDataStart(faces, n, f))),
            faces, n, f + 1)

\* A collection file: header, offset array, one directory per face, then
\* each face's table data.
CollectionFile(faces, n) ==
    LET offsets == [f \in 1..faces |-> FileDirectoryStart(faces, n, f - 1)]
        header == TTC_TAG \o <<0, 1, 0, 0>> \o BE32(faces) \o OffsetArray(offsets, 1)
    IN  Overlay(FileWithFaces(Filler(FileDataStart(faces, n, faces)), faces, n, 0), 0, header)

\* A file of one font: its table directory, then its table data.
SingleFontFile(n) ==
    Overlay(Filler(DirectorySize(n) + 4 * n), 0,
            TableDirectory(<<0, 1, 0, 0>>, n, DirectorySize(n)))

CollectionFiles == {CollectionFile(faces, n) : faces \in 1..MaxFaces, n \in 1..MaxTables}

FontFiles == CollectionFiles \cup {SingleFontFile(n) : n \in 0..MaxTables}

TruncatedFiles ==
    UNION {{SubSeq(f, 1, len) : len \in {l \in {4} \cup LengthChoices : l < Len(f)}} :
             f \in FontFiles}

\* Whole files, files cut short, and malformed one-face collections.
LoaderBuffers == FontFiles \cup TruncatedFiles \cup BuffersOf(1)

\* The Core Text fonts of the font files: one per face of each file.
NativeFonts ==
    UNION {{[file |-> CollectionFile(faces, n), dir |-> FileDirectoryStart(faces, n, f),
             mapped |-> m] : n \in 1..MaxTables, f \in 0..(faces - 1), m \in BOOLEAN} :
             faces \in 1..MaxFaces}
    \cup {[file |-> SingleFontFile(n), dir |-> 0, mapped |-> m] :
            n \in 0..MaxTables, m \in BOOLEAN}

LoaderInit ==
    /\ SourceIdle
    /\ UnpackIdle
    /\ debug_assertions \in BOOLEAN
    /\ LoaderIdle
    /\ InterpIdle

idleVars == <<sourceVars, data, pre, font_index, outcome, debug_assertions, shared, threads, interp>>

AnalyzeBytes ==
    \E font_data \in LoaderBuffers :
        /\ loader.op = ""
        /\ loader' = [op |-> "analyze_bytes", input |-> font_data, index |-> 0,
                      res |-> analyze_bytes(font_data), orig |-> NoRes]
        /\ UNCHANGED idleVars

FromBytes ==
    \E font_data \in LoaderBuffers, index \in 0..MaxFaces :
        /\ loader.op = ""
        /\ loader' = [op |-> "from_bytes", input |-> font_data, index |-> index,
                      res |-> from_bytes(font_data, index, debug_assertions),
                      orig |-> NoRes]
        /\ UNCHANGED idleVars

FromNativeFont ==
    \E native \in NativeFonts :
        /\ loader.op = ""
        /\ loader' = [op |-> "from_native_font", input |-> native.file, index |-> 0,
                      res |-> from_core_text_font(native), orig |-> NoRes]
        /\ UNCHANGED idleVars

\* Face::from_font(other_font) on the font the last call loaded.
FromFont ==
    /\ loader.op \in {"from_bytes", "from_native_font"}
    /\ loader.res.kind = "Font"
    /\ loader' = [op |-> "from_font", input |-> loader.res.font_data, index |-> 0,
                  res |-> from_font(loader.res, debug_assertions), orig |-> loader.res]
    /\ UNCHANGED idleVars

LoaderNext == AnalyzeBytes \/ FromBytes \/ FromNativeFont \/ FromFont

LoaderSpec == LoaderInit /\ [][LoaderNext]_vars

----------------------------------------------------------------------------
(* Claims about the loader. *)

\* C11 as stated: analyze_bytes answers Collection(n), n the big-endian
\* number at byte 8, for every buffer that begins with the magic tag, and
\* never answers Collection for a buffer that does not begin with it.
C11_TagMeansCollection ==
    loader.op = "analyze_bytes" =>
        IF font_is_collection(loader.input)
        THEN /\ loader.res.kind = "Collection"
             /\ Len(loader.input) >= 12
             /\ loader.res.count = BE32At(loader.input, 8)
        ELSE loader.res.kind # "Collection"

\* C11 amended: analyze_bytes answers Collection(n), n the big-endian number
\* at byte 8, for every buffer that begins with the magic tag and holds the
\* 12 bytes of the header up to the count; for every other buffer, tagged
\* and shorter or untagged, it never answers Collection.
C11_CollectionIffTagAndCount ==
    loader.op = "analyze_bytes" =>
        IF font_is_collection(loader.input) /\ Len(loader.input) >= 12
        THEN /\ loader.res.kind = "Collection"
             /\ loader.res.count = BE32At(loader.input, 8)
        ELSE loader.res.kind # "Collection"

\* analyze_bytes has answered Collection(2) for a two-face collection.
C11_Witness ==
    /\ loader.op = "analyze_bytes"
    /\ font_is_collection(loader.input)
    /\ Len(loader.input) >= 12
    /\ loader.res.kind = "Collection"
    /\ loader.res.count = 2

\* C12: asking a buffer that is not a collection for a face other than 0
\* fails: unpacking it is an error, and from_bytes is an error.
C12_NonZeroIndexOfSingleFails ==
    (/\ loader.op = "from_bytes"
     /\ ~font_is_collection(loader.input)
     /\ loader.index # 0)
    => /\ unpack_otc_font(loader.input, loader.index, debug_assertions).kind = "Err"
       /\ loader.res.kind = "Err"

\* C13: a font made by from_font of a font whose data can be copied shows
\* what the font it was made of shows, whether that font came from bytes or
\* from a native font, and whichever face of its file it is.
C13_RoundTripSameFace ==
    (loader.op = "from_font" /\ copy_font_data(loader.orig).some)
    => /\ loader.res.kind = "Font"
       /\ loader.res.meta = loader.orig.meta

----------------------------------------------------------------------------
(* Style matching within one family: a source that holds the family        *)
(* "Styles", whose faces differ in style and weight, and callers that ask  *)
(* select_best_match for it.                                               *)

StyleFamilyName == "Styles"

\* What the source holds under the name: up to MaxStyleFonts of the
\* family's faces, in any order.
StyleFamilyStates ==
    {[ok |-> TRUE, fonts |-> f] : f \in InjSeqsUpTo(HandlesOf(StyleFamilyName), MaxStyleFonts)}

StyleRequests ==
    {Properties(s, w, 100) : s \in {"Normal", "Italic", "Oblique"}, w \in {400, 700}}

MatchInit ==
    /\ installed \in [{StyleFamilyName} -> StyleFamilyStates]
    /\ call = NoCall
    /\ result = None
    /\ queries = <<>>
    /\ UnpackIdle
    /\ debug_assertions = FALSE
    /\ LoaderIdle
    /\ InterpIdle

SelectStyledMatch ==
    \E properties \in StyleRequests :
        LET spec == [families |-> <<Name(StyleFamilyName)>>, properties |-> properties]
            r == select_best_match(installed, spec)
        IN  /\ call.op = ""
            /\ call' = [op |-> "select_best_match", families |-> spec.families,
                        properties |-> properties, name |-> "", all |-> NoAll]
            /\ result' = r.res
            /\ queries' = r.queries
            /\ UNCHANGED <<installed, unpackVars, loaderVars>>

MatchNext == SelectStyledMatch \/ Return

MatchSpec == MatchInit /\ [][MatchNext]_vars

\* A styled call has been made; the faces of the family asked, their styles.
StyledCall ==
    /\ StyleFamilyName \in DOMAIN installed
    /\ call.op = "select_best_match"
    /\ call.families = <<Name(StyleFamilyName)>>

StyledFaces == Range(installed[StyleFamilyName].fonts)

StylesPresent == {FontTable[h].style : h \in StyledFaces}

FacesLike(descriptions) ==
    {h \in HandlesOf(StyleFamilyName) :
        <<FontTable[h].style, FontTable[h].weight>> \in descriptions}

\* C14: when the family holds a face whose style is the requested style,
\* select_best_match returns a face of that style, whatever the weights of
\* the faces of other styles.
C14_StyleOutranksWeight ==
    (StyledCall /\ call.properties.style \in StylesPresent)
    => /\ result.kind = "Ok"
       /\ FontTable[result.handle].style = call.properties.style

\* Faces {400 normal, 700 normal, 400 italic}, weight 700 italic requested,
\* the 400 italic face returned.
C14_Witness ==
    /\ StyledCall
    /\ StyledFaces = FacesLike({<<"Normal", 400>>, <<"Normal", 700>>, <<"Italic", 400>>})
    /\ call.properties = Properties("Italic", 700, 100)
    /\ result.kind = "Ok"
    /\ result.handle \in FacesLike({<<"Italic", 400>>})

\* C15: with no italic face an Italic request returns an Oblique face when
\* there is one; with no oblique face an Oblique request returns an Italic
\* face when there is one; a Normal request returns a Normal face whenever
\* there is one, so a slanted face only when there is no upright one.
C15_StyleFallbackOrder ==
    (StyledCall /\ StyledFaces # {})
    => /\ result.kind = "Ok"
       /\ LET requested == call.properties.style
              returned == FontTable[result.handle].style
          IN  /\ (requested = "Italic" /\ "Italic" \notin StylesPresent
                  /\ "Oblique" \in StylesPresent) => returned = "Oblique"
              /\ (requested = "Oblique" /\ "Oblique" \notin StylesPresent
                  /\ "Italic" \in StylesPresent) => returned = "Italic"
              /\ (requested = "Normal" /\ "Normal" \in StylesPresent)
                  => returned = "Normal"
              /\ (requested = "Normal" /\ returned # "Normal")
                  => "Normal" \notin StylesPresent

\* Italic requested of a family of normal and oblique faces only, an
\* oblique face returned.
C15_Witness ==
    /\ StyledCall
    /\ StylesPresent = {"Normal", "Oblique"}
    /\ call.properties.style = "Italic"
    /\ result.kind = "Ok"
    /\ FontTable[result.handle].style = "Oblique"

----------------------------------------------------------------------------
(* The native-to-CSS conversions of loaders/core_text.rs.  An f32 is kept  *)
(* in fixed point, as a whole number of thousandths; a lookup rounds down  *)
(* to the next thousandth.                                                 *)

Scale == 1000

\* sources::core_text::FONT_WEIGHT_MAPPING: the Core Text weights of the CSS
\* weights 100, 200, ..., 900.
FONT_WEIGHT_MAPPING == <<-700, -500, -230, 0, 200, 300, 400, 600, 800>>

\* descriptor::FONT_STRETCH_MAPPING: the CSS stretch factors, ultra-condensed
\* to ultra-expanded.
FONT_STRETCH_MAPPING == <<500, 625, 750, 875, 1000, 1125, 1250, 1500, 2000>>

\* The fractional 0-based index of query_value in mapping, clamped to the
\* ends of the table.
piecewise_linear_find_index(query_value, mapping) ==
    IF query_value <= mapping[1] THEN 0
    ELSE IF query_value >= mapping[Len(mapping)] THEN (Len(mapping) - 1) * Scale
    ELSE LET lower == CHOOSE i \in 1..(Len(mapping) - 1) :
                          mapping[i] <= query_value /\ query_value < mapping[i + 1]
         IN  (lower - 1) * Scale
             + ((query_value - mapping[lower]) * Scale) \div (mapping[lower + 1] - mapping[lower])

\* The value of mapping at a fractional 0-based index, clamped to the ends
\* of the table.
piecewise_linear_lookup(index, mapping) ==
    IF index <= 0 THEN mapping[1]
    ELSE IF index >= (Len(mapping) - 1) * Scale THEN mapping[Len(mapping)]
    ELSE LET lower == index \div Scale + 1
             t == index % Scale
         IN  mapping[lower] + (t * (mapping[lower + 1] - mapping[lower])) \div Scale

\* The weight without the offset of 100.
core_text_to_css_font_weight_no_offset(core_text_weight) ==
    piecewise_linear_find_index(core_text_weight, FONT_WEIGHT_MAPPING) * 100

core_text_to_css_font_weight(core_text_weight) ==
    piecewise_linear_find_index(core_text_weight, FONT_WEIGHT_MAPPING) * 100 + 100 * Scale

core_text_width_to_css_stretchiness(core_text_width) ==
    piecewise_linear_lookup((core_text_width + 1 * Scale) * 4, FONT_STRETCH_MAPPING)

\* The native values converted: a grid over -1.2 .. 1.2 and beyond, and the
\* table entries off the grid.
GridSteps == 96

NativeValues ==
    {25 * k - 1200 : k \in 0..GridSteps} \cup Range(FONT_WEIGHT_MAPPING)

InterpInit ==
    /\ SourceIdle
    /\ UnpackIdle
    /\ debug_assertions = FALSE
    /\ LoaderIdle
    /\ InterpIdle

ConvertWeight ==
    \E w \in NativeValues :
        /\ interp' = [op |-> "weight", x |-> w, y |-> core_text_to_css_font_weight(w)]
        /\ UNCHANGED <<sourceVars, unpackVars, loader, shared, threads>>

ConvertWidth ==
    \E w \in NativeValues :
        /\ interp' = [op |-> "width", x |-> w, y |-> core_text_width_to_css_stretchiness(w)]
        /\ UNCHANGED <<sourceVars, unpackVars, loader, shared, threads>>

InterpNext == ConvertWeight \/ ConvertWidth

InterpSpec == InterpInit /\ [][InterpNext]_vars

\* y is the linear blend at x of the line from (x0, y0) to (x1, y1),
\* rounded down to a multiple of unit.
IsBlend(x, y, x0, y0, x1, y1, unit) ==
    /\ x0 <= x /\ x <= x1
    /\ (y - y0) % unit = 0
    /\ (y - y0) * (x1 - x0) <= (x - x0) * (y1 - y0)
    /\ (x - x0) * (y1 - y0) < (y - y0 + unit) * (x1 - x0)

\* The CSS weight of entry i of the weight table, and the native width of
\* entry i of the stretch table.
CssWeightAt(i) == 100 * i * Scale
NativeWidthAt(i) == ((i - 1) * Scale) \div 4 - Scale

\* C16: each conversion is the clamped piecewise-linear interpolation of its
\* table: a table entry maps to its CSS value exactly, a value between two
\* adjacent entries to their linear blend, a value below the first or above
\* the last entry to the CSS value of that end.
C16_ClampedPiecewiseLinear ==
    /\ interp.op = "weight" =>
          LET W == FONT_WEIGHT_MAPPING
              n == Len(W)
          IN  /\ \A i \in 1..n : interp.x = W[i] => interp.y = CssWeightAt(i)
              /\ interp.x < W[1] => interp.y = CssWeightAt(1)
              /\ interp.x > W[n] => interp.y = CssWeightAt(n)
              /\ (W[1] <= interp.x /\ interp.x <= W[n]) =>
                    \E i \in 1..(n - 1) :
                        IsBlend(interp.x, interp.y, W[i], CssWeightAt(i),
                                W[i + 1], CssWeightAt(i + 1), 100)
    /\ interp.op = "width" =>
          LET S == FONT_STRETCH_MAPPING
              n == Len(S)
          IN  /\ \A i \in 1..n : interp.x = NativeWidthAt(i) => interp.y = S[i]
              /\ interp.x < NativeWidthAt(1) => interp.y = S[1]
              /\ interp.x > NativeWidthAt(n) => interp.y = S[n]
              /\ (NativeWidthAt(1) <= interp.x /\ interp.x <= NativeWidthAt(n)) =>
                    \E i \in 1..(n - 1) :
                        IsBlend(interp.x, interp.y, NativeWidthAt(i), S[i],
                                NativeWidthAt(i + 1), S[i + 1], 1)

\* Weight 0.1, between the entries 0.0 and 0.2, has been converted to 450.
C16_Witness == interp = [op |-> "weight", x |-> 100, y |-> 450 * Scale]

----------------------------------------------------------------------------
\* C17: for every buffer and every face index, reading the face count and
\* unpacking end in Ok or in a loading error, never in an abort for an index
\* past the end of the buffer, and an unpack that does not succeed has
\* copied nothing.
C17_NoAbortNoPartialCopy ==
    Called =>
        /\ read_number_of_fonts_from_otc_header(pre).kind \in {"Ok", "Err"}
        /\ outcome.kind \in {"Ok", "Err"}
        /\ outcome.kind # "Ok" => data = pre

----------------------------------------------------------------------------
(* Concurrent callers of Font::from_bytes on one shared Arc<Vec<u8>>.      *)
(* Each thread runs the body of from_bytes a statement at a time; shared   *)
(* is the bytes behind the Arc, pre the bytes the buffer was made with.    *)
(* A thread is [pc, index, new_font_data, res]: pc is "idle", "clone",     *)
(* "unpack", "provide", "done" or "aborted".                               *)

IdleThread == [pc |-> "idle", index |-> 0, new_font_data |-> <<>>, res |-> NoRes]

\* The buffers callers share: font files, whole and cut short.
SharedBuffers == FontFiles \cup TruncatedFiles

\* unpack_otc_font run in place on the shared buffer.
UnpackSharedBuffer(shared_bytes, new_font_data, index, debug) ==
    [shared |-> unpack_otc_font(shared_bytes, index, debug).data,
     r |-> unpack_otc_font(shared_bytes, index, debug)]

\* try!(unpack_otc_font(&mut new_font_data, font_index)): the unpack writes
\* the thread's clone and leaves the bytes behind the Arc alone.
UnpackPrivateCopy(shared_bytes, new_font_data, index, debug) ==
    [shared |-> shared_bytes, r |-> unpack_otc_font(new_font_data, index, debug)]

ConcurrentInit ==
    /\ SourceIdle
    /\ shared \in SharedBuffers
    /\ pre = shared
    /\ data = EmptyBuffer
    /\ font_index = 0
    /\ outcome = NoOutcome
    /\ debug_assertions \in BOOLEAN
    /\ loader = NoLoader
    /\ threads = [t \in 1..MaxThreads |-> IdleThread]
    /\ InterpIdle

concurrentIdle == <<sourceVars, data, pre, font_index, outcome, debug_assertions, loader, interp>>

\* Thread t calls from_bytes(shared, index) and tests font_is_collection.
CallFromBytes(t) ==
    \E index \in 0..MaxFaces :
        /\ threads[t].pc = "idle"
        /\ threads' = [threads EXCEPT ![t] =
              [pc |-> IF font_is_collection(shared) THEN "clone" ELSE "provide",
               index |-> index, new_font_data |-> <<>>, res |-> NoRes]]
        /\ UNCHANGED <<shared, concurrentIdle>>

\* let mut new_font_data = (*font_data).clone();
CloneShared(t) ==
    /\ threads[t].pc = "clone"
    /\ threads' = [threads EXCEPT ![t].pc = "unpack", ![t].new_font_data = shared]
    /\ UNCHANGED <<shared, concurrentIdle>>

\* try!(unpack_otc_font(&mut new_font_data, font_index));
UnpackClone(t) ==
    LET u == UnpackPrivateCopy(shared, threads[t].new_font_data, threads[t].index,
                               debug_assertions)
    IN  /\ threads[t].pc = "unpack"
        /\ shared' = u.shared
        /\ threads' = [threads EXCEPT ![t] =
              CASE u.r.kind = "Ok" -> [@ EXCEPT !.pc = "provide", !.new_font_data = u.r.data]
                [] u.r.kind = "Err" -> [@ EXCEPT !.pc = "done", !.new_font_data = <<>>,
                                                 !.res = LoadErr(u.r.err)]
                [] OTHER -> [@ EXCEPT !.pc = "aborted", !.new_font_data = <<>>,
                                      !.res = LoadAbort]]
        /\ UNCHANGED concurrentIdle

\* CGFont::from_data_provider(font_data): of the unpacked clone when the
\* buffer was a collection, of the shared buffer itself otherwise.
ProvideData(t) ==
    LET font_data == IF font_is_collection(shared) THEN threads[t].new_font_data ELSE shared
        core_graphics_font == CGFont_from_data_provider(font_data)
    IN  /\ threads[t].pc = "provide"
        /\ threads' = [threads EXCEPT ![t] =
              [@ EXCEPT !.pc = "done", !.new_font_data = <<>>,
                        !.res = IF core_graphics_font.kind # "Ok" THEN LoadErr("Parse")
                                ELSE [kind |-> "Font", err |-> "", count |-> 0,
                                      source |-> "Memory", font_data |-> font_data,
                                      meta |-> core_graphics_font.meta]]]
        /\ UNCHANGED <<shared, concurrentIdle>>

ConcurrentNext ==
    \E t \in 1..MaxThreads :
        CallFromBytes(t) \/ CloneShared(t) \/ UnpackClone(t) \/ ProvideData(t)

ConcurrentSpec == ConcurrentInit /\ [][ConcurrentNext]_vars

\* C18: under every interleaving of from_bytes calls on one shared buffer,
\* the bytes of the shared buffer stay what they were, and each finished
\* call has what a call alone on the original bytes yields: the same
\* result, and for a face of a collection the bytes that unpacking the
\* original at its index gives.
C18_SharedBufferUntouched ==
    (threads # NoThreads) =>
        /\ shared = pre
        /\ \A t \in 1..Len(threads) :
              threads[t].pc \in {"done", "aborted"} =>
                  /\ threads[t].res = from_bytes(pre, threads[t].index, debug_assertions)
                  /\ (threads[t].res.kind = "Font" /\ font_is_collection(pre)) =>
                        threads[t].res.font_data
                            = unpack_otc_font(pre, threads[t].index, debug_assertions).data

\* Two calls on one two-face collection, for faces 0 and 1, have both
\* finished with different faces, and the shared buffer is as it was.
C18_Witness ==
    /\ threads # NoThreads
    /\ font_is_collection(pre) /\ shared = pre
    /\ threads[1].pc = "done" /\ threads[2].pc = "done"
    /\ threads[1].index = 1 /\ threads[2].index = 0
    /\ threads[1].res.kind = "Font" /\ threads[2].res.kind = "Font"
    /\ threads[1].res.meta # threads[2].res.meta

====
